---- MODULE Spec2Model ----
(***************************************************************************)
(* Broadcast run of the /send command (commend/send.ts): one execution of  *)
(* startForwardingProcess for one operator, from the user snapshot to the  *)
(* final report, with the sequential dispatch loop of sendToUsers, the     *)
(* GramJS -> Bot API fallback, the retry rounds and the pacing sleeps.     *)
(*                                                                         *)
(* Time is kept per channel as the part of a server-announced rate-limit   *)
(* window that the run has not slept through yet (owed, in ms).            *)
(***************************************************************************)
EXTENDS Integers, Sequences, FiniteSets, TLC

\* ------------------------------------------------------------------ bounds
\* Largest number of recipients stored in the User collection.
MaxUsers == 3
\* Largest wait hint (seconds) a rate-limit error carries.
MaxWaitHint == 1
\* Largest number of recipients in the runs started from the conversation.
MaxFlowUsers == 1
\* Largest number of runs in progress beside the one followed step by step.
MaxOtherRuns == 1
MaxTicks == 25
MaxFileTicks == 3

\* ------------------------------------------------------- program constants
PER_SEND_DELAY_MS == 300
GROUP_SEND_COUNT == 3
batchSize == 1
delayBetweenBatches == 0
maxRetriesOffByOne == 3 + 1
maxRetries == 3
RETRY_ROUND_DELAY_MS == 2000
RATE_LIMIT_SLACK_MS == 500
GROUP_PAUSE_MIN_MS == 10000
GROUP_PAUSE_MAX_MS == 20000
\* retryDelaysMs of downloadFileBufferOnce, indexed from 0 as in the source.
retryDelaysMs == [k \in 0..4 |-> 15000 + 5000 * k]

\* ----------------------------------------------------------------- helpers
Max(a, b) == IF a >= b THEN a ELSE b
Range(s) == {s[k] : k \in 1..Len(s)}

Channels == {"primary", "secondary"}
\* The callers of getGramjsClient for one operator: the run's sendToUsers,
\* and testGramjsConnection of /gramjs_test and /gramjs_status.
Callers == {"sendToUsers", "testGramjsConnection"}
\* The waits the run's sleeps run down: one per channel, and the per-send
\* delay that starts when a recipient's attempt has completed.
Clocks == Channels \cup {"pacing"}
UserIds == 1..MaxUsers
WaitHints == 1..MaxWaitHint

\* A row of the User collection: userId is unique (schema index), username
\* is optional; only its presence matters to the run.
UserRow(id, hasName) == [userId |-> id, username |-> hasName]

\* Every content the User collection can have: ids 1..n, each with or
\* without a username.
UserTables ==
    UNION {{[k \in 1..n |-> UserRow(k, names[k])] : names \in [1..n -> BOOLEAN]}
           : n \in 0..MaxUsers}

\* Collections in which userId is not unique. The bot never writes the User
\* collection, and `unique: true` of the schema is an index request, not a
\* validation: on a collection that already holds a userId twice the index
\* is not built and find() returns both rows. Here the first row's userId
\* comes a second time in a last row.
DupTables ==
    {Append(t, UserRow(1, hasName)) :
        t \in {u \in UserTables : Len(u) \in 1..(MaxUsers - 1)}, hasName \in BOOLEAN}

\* What a Bot API copyMessage call can do: succeed, throw an error without a
\* wait hint, either one that passes ("other") or one that stays ("forbidden":
\* 403 bot was blocked by the user, user is deactivated; 400 chat not found),
\* or throw "Too Many Requests: retry after w".
BotApiResults ==
    {[ok |-> TRUE, kind |-> "ok", w |-> 0], [ok |-> FALSE, kind |-> "other", w |-> 0],
     [ok |-> FALSE, kind |-> "forbidden", w |-> 0]}
    \cup {[ok |-> FALSE, kind |-> "retry_after", w |-> w] : w \in WaitHints}

\* What a GramJS client.sendMessage / invoke call can do: succeed, throw an
\* error without a wait hint, or throw FLOOD_WAIT_w / "A wait of w seconds".
GramjsResults ==
    {[ok |-> TRUE, kind |-> "ok", w |-> 0], [ok |-> FALSE, kind |-> "other", w |-> 0]}
    \cup {[ok |-> FALSE, kind |-> k, w |-> w] : k \in {"FLOOD_WAIT", "wait_of"}, w \in WaitHints}

\* The wait (ms) the server announced with an error; 0 when it announced none.
AnnouncedWaitMs(error) ==
    IF error.kind \in {"retry_after", "FLOOD_WAIT", "wait_of"} THEN error.w * 1000 ELSE 0

\* parseRetryAfterMs: the three patterns, in the order the source tries them.
parseRetryAfterMs(error) ==
    IF error.kind = "retry_after" THEN error.w * 1000
    ELSE IF error.kind = "FLOOD_WAIT" THEN error.w * 1000
    ELSE IF error.kind = "wait_of" THEN error.w * 1000
    ELSE 0

\* sleep(ms): every outstanding wait shrinks by the time slept.
sleep(o, ms) == [c \in DOMAIN o |-> Max(0, o[c] - ms)]

\* A rate-limit error opens (or extends) the channel's outstanding wait.
RateLimited(o, channel, error) ==
    [o EXCEPT ![channel] = Max(@, AnnouncedWaitMs(error))]

\* Math.round((processedCount / totalUsers) * 100), half rounded up.
progressPercentage(processedCount, total) ==
    (200 * processedCount + total) \div (2 * total)

\* ------------------------------------------------------------------- state
VARIABLES
    dbUsers,            \* User collection (rows in find() order)
    adminGramjs,        \* operator's AdminUser row matches isActive/gramjsActive/gramjsSession
    userStates,         \* userStates entry of the operator: its step, or "none"
    messageType,        \* userState.messageType
    fileBuffer,         \* userState.fileBuffer is set
    attemptNumber,      \* downloadFileBufferOnce: attemptNumber % retryDelaysMs.length
    pc,                 \* position of the background run
    users,              \* startForwardingProcess: the snapshot
    totalUsers,
    useGramjs,
    totalSuccessCount,
    totalFailureCount,
    failedUsers,        \* sequence of FailedUser {userId, triedCount}
    retryAttempt,
    passUsers,          \* sendToUsers: its users parameter
    attemptType,        \* "Initial" or "Retry"
    i,                  \* sendToUsers: loop index (0-based, as in the source)
    successCount,
    failureCount,
    failedUserIds,
    owed,               \* per channel: announced wait not yet slept through (ms)
    lastEdit,           \* the progress edit made by the latest step
    report,             \* the final completion message, or NoReport
    attempts,           \* per recipient: delivery attempts made in this run
    succeeded,          \* recipients a send has succeeded for
    lastAttempt,        \* what the latest loop iteration did
    retryRounds,        \* retry rounds in which sendToUsers was called
    passSends,          \* loop iterations of the current pass that sent (not skipped)
    groupPauses,        \* group pauses taken in the current pass
    passEdits,          \* progress edits made by the loop in the current pass
    otherRuns,          \* runs of startForwardingProcess in progress beside this one
    clientCache,        \* clientCache entry of the operator: "none", or its .connected
    cachedIsMine,       \* the cached client is the object gramClient refers to
    gramClient,         \* sendToUsers: gramClient ("none": undefined), its .connected
    runAt,              \* sendToUsers: its position in the client handling of a turn
    gAt,                \* per caller of getGramjsClient: its position in it
    sentOn,             \* the client the latest GramJS send was made on, its .connected
    fileCache,          \* fileCache holds an entry with the buffer of the message's file
    isActive,           \* AdminUser.isActive of the operator
    otpServer,          \* the express server that runs
    otpSession,         \* the session of one id in the map the handlers read
    sweepIn,            \* ms until the cleanup interval fires next
    otpAnswer,          \* what the latest request for the id was answered
    answeredAge,        \* the session's age when it was last found by a request
    statusOtp,          \* the otp field of the latest answer of getOtpStatus
    cacheEntries,       \* fileCache: for each file id, its entry and the entry's age
    fetching,           \* the file ids a call of downloadFileFromTelegram is fetching
    lastDownload,       \* the latest call of downloadFileFromTelegram and its answer
    setupStates,        \* setupStates entry of the operator (step "none": no entry)
    setupInput,         \* the text of the latest message given to handleSetupFlow
    adminRow,           \* the gramjs fields of the operator's AdminUser row
    authStates,         \* authStates entry of the operator (step "none": no entry)
    activeAdmins,       \* the userIds of the AdminUser rows with isActive true
    removing            \* each admin's /removeadmin past requireAdmin, and its target

vars ==
    <<dbUsers, adminGramjs, userStates, messageType, fileBuffer, attemptNumber, pc,
      users, totalUsers, useGramjs, totalSuccessCount, totalFailureCount, failedUsers,
      retryAttempt, passUsers, attemptType, i, successCount, failureCount,
      failedUserIds, owed, lastEdit, report, attempts, succeeded,
      lastAttempt, retryRounds, passSends, groupPauses, passEdits, otherRuns,
      clientCache, cachedIsMine, gramClient, runAt, gAt, sentOn, fileCache,
      isActive, otpServer, otpSession, sweepIn, otpAnswer, answeredAge,
      statusOtp, cacheEntries, fetching, lastDownload, setupStates, setupInput,
      adminRow, authStates, activeAdmins, removing>>

runVars ==
    <<users, totalUsers, useGramjs, totalSuccessCount, totalFailureCount, failedUsers,
      retryAttempt>>

passVars ==
    <<passUsers, attemptType, i, successCount, failureCount, failedUserIds>>

ghostVars ==
    <<attempts, succeeded, lastAttempt, retryRounds, passSends, groupPauses, passEdits>>

clientVars == <<clientCache, cachedIsMine, gramClient, runAt, gAt, sentOn>>

otpVars == <<otpServer, otpSession, sweepIn, otpAnswer, answeredAge, statusOtp>>

fileVars == <<cacheEntries, fetching, lastDownload>>

\* The state of the subsystems that the broadcast leaves alone.
setupVars == <<setupStates, setupInput, adminRow, authStates>>

removeVars == <<activeAdmins, removing>>

extraVars == <<fileVars, setupVars, removeVars>>

\* What no step of the run but the download writes.
storageVars ==
    <<dbUsers, adminGramjs, otherRuns, clientVars, fileCache, isActive, otpVars,
      extraVars>>

\* No completion message has been sent.
NoReport == [totalUsers |-> 0, succeeded |-> 0, failed |-> 0]

\* index_webhook_express.ts lines 24-31: sessions older than 10 minutes are
\* deleted by an interval of one minute.
SESSION_EXPIRY_MS == 600000
CACHE_EXPIRY_MS == 3600000
CLEANUP_INTERVAL_MS == 60000

\* The step of time of the OTP sessions: half a cleanup interval.
TickMs == CLEANUP_INTERVAL_MS \div 2

\* The null otp of a status answer, and the otp of a session without one.
NoOtp == <<>>

\* The file ids of the messages broadcast; the first is the file of the run.
FileIds == {"fileA", "fileB"}

\* No CachedFile under the file id.
NoEntry == [present |-> FALSE, downloadedAgo |-> 0]

NoDownload == [fileId |-> "none", answer |-> "none"]

\* The admins: the operator and two others.
Admins == {"operator", "peer1", "peer2"}

\* The admin has no /removeadmin between requireAdmin and removeAdmin.
NoCommand == "none"

\* A text field that is not set.
NoText == <<>>

\* No GramjsSetupState of the operator.
NoSetup == [step |-> "none", apiId |-> 0, apiHash |-> NoText, phoneNumber |-> NoText]

\* No GramjsAuthState of the operator.
NoAuth == [step |-> "none", gramjsApiId |-> 0, gramjsApiHash |-> NoText]

\* The AdminUser row without gramjs fields (apiId 0: the field is not set).
EmptyRow ==
    [gramjsApiId |-> 0, gramjsApiHash |-> NoText, gramjsPhoneNumber |-> NoText,
     gramjsSession |-> FALSE, gramjsActive |-> FALSE]

\* The messages of the operator during a setup: an API id, an API id
\* followed by letters, "0", an API hash of ten characters, a phone number,
\* a phone number with a leading zero, and /cancel.
SetupInputs ==
    { <<"1", "2", "3", "4", "5", "6">>,
      <<"1", "2", "a", "b", "c">>,
      <<"0">>,
      <<"a", "b", "c", "d", "e", "f", "1", "2", "3", "4">>,
      <<"+", "1", "2", "3", "4", "5", "6", "7", "8", "9", "0">>,
      <<"+", "0", "1", "2", "3">>,
      <<"/", "c", "a", "n", "c", "e", "l">> }

\* A row after an authentication: the query of startForwardingProcess matches.
ConfiguredRow ==
    [gramjsApiId |-> 123456,
     gramjsApiHash |-> <<"a", "b", "c", "d", "e", "f", "1", "2", "3", "4">>,
     gramjsPhoneNumber |-> <<"+", "1", "2", "3", "4", "5", "6", "7", "8", "9", "0">>,
     gramjsSession |-> TRUE, gramjsActive |-> TRUE]

NoSession ==
    [present |-> FALSE, age |-> 0, confirmed |-> FALSE, type |-> "code", otp |-> NoOtp]

NoEdit == [kind |-> "none", processed |-> 0, pct |-> 0, delivered |-> FALSE]

NoAttempt ==
    [userId |-> 0, skipped |-> FALSE, secUsed |-> FALSE, secOk |-> FALSE,
     secOwedAtSend |-> 0, priCalls |-> 0, priOk |-> FALSE, priOwedAtSend |-> 0,
     paceOwedAtSend |-> 0, priError |-> "none", success |-> FALSE]

\* Message types handleMessageReceived stores: text; a type with
\* mediaData.fileId (photo ... video_note); a type without mediaData
\* (location, contact, poll, other).
MessageTypes == {"text", "photo", "location"}
\* "none": no message stored yet.

HasFileId(type) == type = "photo"

\* The process before any run has taken a step.
Fresh(tables) ==
    /\ dbUsers \in tables
    /\ adminGramjs \in BOOLEAN
    /\ otherRuns = 0
    /\ clientCache = "none"
    /\ cachedIsMine = FALSE
    /\ gramClient = "none"
    /\ runAt = "get_client"
    /\ gAt = [c \in Callers |-> "out"]
    /\ sentOn = "none"
    /\ fileCache = FALSE
    /\ isActive = TRUE
    /\ otpSession = NoSession
    /\ sweepIn = CLEANUP_INTERVAL_MS
    /\ otpAnswer = "none"
    /\ answeredAge = 0
    /\ statusOtp = NoOtp
    /\ cacheEntries = [f \in FileIds |-> NoEntry]
    /\ fetching = {}
    /\ lastDownload = NoDownload
    /\ setupStates = NoSetup
    /\ setupInput = NoText
    /\ adminRow = IF adminGramjs THEN ConfiguredRow ELSE EmptyRow
    /\ authStates = NoAuth
    /\ activeAdmins = Admins
    /\ removing = [a \in Admins |-> NoCommand]
    /\ fileBuffer = FALSE
    /\ attemptNumber = 0
    /\ users = <<>>
    /\ totalUsers = 0
    /\ useGramjs = FALSE
    /\ totalSuccessCount = 0
    /\ totalFailureCount = 0
    /\ failedUsers = <<>>
    /\ retryAttempt = 0
    /\ passUsers = <<>>
    /\ attemptType = "Initial"
    /\ i = 0
    /\ successCount = 0
    /\ failureCount = 0
    /\ failedUserIds = <<>>
    /\ owed = [c \in Clocks |-> 0]
    /\ lastEdit = NoEdit
    /\ report = NoReport
    /\ attempts = [r \in UserIds |-> 0]
    /\ succeeded = {}
    /\ lastAttempt = NoAttempt
    /\ retryRounds = 0
    /\ passSends = 0
    /\ groupPauses = 0
    /\ passEdits = 0

\* The run starts from handleCallbackQuery('confirm_send'): the state is in
\* step awaiting_confirmation with messageId, chatId, messageContent and
\* messageType stored and no fileBuffer.
RunStart(tables) ==
    /\ Fresh(tables)
    /\ otpServer = "index_webhook_express"
    /\ userStates = "awaiting_confirmation"
    /\ messageType \in MessageTypes
    /\ pc = "start"

Init == RunStart(UserTables)

\* ------------------------------------------------- one recipient's dispatch
copyMessageWithoutWait(o, result) ==
    [ok |-> result.ok,
     error |-> IF result.ok THEN "none" ELSE result.kind,
     owedAtSend |-> o["primary"],
     owed |-> IF result.ok THEN o ELSE RateLimited(o, "primary", result)]

\* ctx.api.copyMessage in its try/catch: on an error the catch parses the
\* wait hint and, when it is positive, sleeps it plus the slack.
copyMessage(o, result) ==
    LET waitMs == parseRetryAfterMs(result)
        o1 == RateLimited(o, "primary", result)
    IN  [ok |-> result.ok,
         error |-> IF result.ok THEN "none" ELSE result.kind,
         owedAtSend |-> o["primary"],
         owed |-> IF result.ok THEN o
                  ELSE IF waitMs > 0 THEN sleep(o1, waitMs + RATE_LIMIT_SLACK_MS)
                  ELSE o1]

\* sendMessageWithCachedBuffer: any error of the client call is caught and
\* turned into the return value false; nothing sleeps.
sendMessageWithCachedBuffer(o, result) ==
    [ok |-> result.ok,
     owedAtSend |-> o["secondary"],
     owed |-> IF result.ok THEN o ELSE RateLimited(o, "secondary", result)]

\* sendMessageContentViaGramjs: the same shape, without the cached buffer.
sendMessageContentViaGramjs(o, result) ==
    [ok |-> result.ok,
     owedAtSend |-> o["secondary"],
     owed |-> IF result.ok THEN o ELSE RateLimited(o, "secondary", result)]

throttleWithoutDelay(o, pauseMs) == [owed |-> o, paused |-> FALSE]

\* The pacing after a loop iteration. sendsSinceGroupPause is declared inside
\* the batch loop, so it starts at 0 for every batch of batchSize users; it
\* is incremented once for the batch's only user.
throttle(o, pauseMs) ==
    LET o1 == sleep(o, PER_SEND_DELAY_MS)
        sendsSinceGroupPause == 0 + batchSize
        pause == sendsSinceGroupPause >= GROUP_SEND_COUNT
    IN  [owed |-> IF pause THEN sleep(o1, pauseMs) ELSE o1, paused |-> pause]

SkipsNoUser(user) == FALSE
\* `if (useGramjs && !user.username)`: the user is skipped.
SkipsUser(user) == useGramjs /\ ~user.username

NeverFallsBack(gramjsSuccess) == FALSE
\* `if (!success)` after the GramJS send: fall back to the Bot API.
FallsBack(gramjsSuccess) == ~gramjsSuccess

DoesNotCatch(result) == ~result.ok
\* Whether an error of a send leaves the loop body: every send sits in its
\* own try/catch (lines 700-712, 715-725, 770-780) inside the outer try of
\* lines 696-789, and no catch rethrows.
EscapesLoop(result) == FALSE

\* The recipient's attempt has completed (line 791): the per-send delay is
\* due from here.
Completed(o) == [o EXCEPT !["pacing"] = PER_SEND_DELAY_MS]

\* The body of the inner `for (const user of batch)` loop for one user.
dispatchUser(user, gram, bot, o, pauseMs) ==
    IF SkipsUser(user) THEN
        LET t == throttle(o, pauseMs)
        IN  [userId |-> user.userId, skipped |-> TRUE,
             secUsed |-> FALSE, secOk |-> FALSE, secOwedAtSend |-> 0,
             priCalls |-> 0, priOk |-> FALSE, priOwedAtSend |-> 0,
             paceOwedAtSend |-> 0, priError |-> "none",
             success |-> FALSE, escaped |-> FALSE,
             owed |-> t.owed, paused |-> t.paused]
    ELSE IF useGramjs THEN
        LET g == IF fileBuffer THEN sendMessageWithCachedBuffer(o, gram)
                 ELSE sendMessageContentViaGramjs(o, gram)
            fb == FallsBack(g.ok)
            b == copyMessage(g.owed, bot)
            t == throttle(Completed(IF fb THEN b.owed ELSE g.owed), pauseMs)
        IN  [userId |-> user.userId, skipped |-> FALSE,
             secUsed |-> TRUE, secOk |-> g.ok, secOwedAtSend |-> g.owedAtSend,
             priCalls |-> IF fb THEN 1 ELSE 0, priOk |-> fb /\ b.ok,
             priOwedAtSend |-> IF fb THEN b.owedAtSend ELSE 0,
             paceOwedAtSend |-> o["pacing"],
             priError |-> IF fb THEN b.error ELSE "none",
             success |-> IF fb THEN b.ok ELSE g.ok,
             escaped |-> \/ (~g.ok /\ EscapesLoop(gram))
                         \/ (fb /\ ~b.ok /\ EscapesLoop(bot)),
             owed |-> t.owed, paused |-> t.paused]
    ELSE
        LET b == copyMessage(o, bot)
            t == throttle(Completed(b.owed), pauseMs)
        IN  [userId |-> user.userId, skipped |-> FALSE,
             secUsed |-> FALSE, secOk |-> FALSE, secOwedAtSend |-> 0,
             priCalls |-> 1, priOk |-> b.ok, priOwedAtSend |-> b.owedAtSend,
             paceOwedAtSend |-> o["pacing"],
             priError |-> b.error,
             success |-> b.ok,
             escaped |-> ~b.ok /\ EscapesLoop(bot),
             owed |-> t.owed, paused |-> t.paused]

\* Everything one turn of the loop can do with the user, over the results
\* of the sends and the length of a group pause. A sender that the turn does
\* not call has one (unused) result.
dispatchOutcomes(user) ==
    {dispatchUser(user, gram, bot, owed, pauseMs) :
        gram \in IF useGramjs /\ ~SkipsUser(user) THEN GramjsResults
                 ELSE {[ok |-> TRUE, kind |-> "ok", w |-> 0]},
        bot \in IF SkipsUser(user) THEN {[ok |-> TRUE, kind |-> "ok", w |-> 0]}
                ELSE BotApiResults,
        pauseMs \in {GROUP_PAUSE_MIN_MS, GROUP_PAUSE_MAX_MS}}

AttemptOf(d) == [f \in DOMAIN NoAttempt |-> d[f]]

\* ---------------------------------------------------------------- the run
\* The catch and finally of startForwardingProcess: the error reply, then
\* the operator's state is deleted.
stateKept == userStates
\* Lines 638-641: `finally { userStates.delete(userId); }`.
stateAfterRun == "none"

\* Lines 635-641: the catch replies and the finally removes the entry.
Abort ==
    /\ pc' = "aborted"
    /\ userStates' = stateAfterRun

neverEmpty(n) == FALSE
\* Line 523: `if (totalUsers === 0)`.
noUsersFound(n) == n = 0

\* Lines 516-527: the snapshot; an empty collection ends the run.
FetchUsers ==
    /\ pc = "start"
    /\ \E throws \in BOOLEAN :
        IF throws THEN
            /\ Abort
            /\ UNCHANGED <<users, totalUsers>>
        ELSE
            /\ users' = dbUsers
            /\ totalUsers' = Len(dbUsers)
            /\ pc' = IF noUsersFound(Len(dbUsers)) THEN "empty" ELSE "select_method"
            /\ userStates' = IF noUsersFound(Len(dbUsers)) THEN "none" ELSE userStates
    /\ UNCHANGED <<storageVars, messageType, fileBuffer, attemptNumber, useGramjs,
                   totalSuccessCount, totalFailureCount, failedUsers, retryAttempt,
                   passVars, owed, lastEdit, report, ghostVars>>

gramjsAlways == TRUE
\* Lines 529-537: `useGramjs = !!adminUser`, adminUser being the operator's
\* row with isActive, gramjsActive and a gramjsSession.
gramjsConfigured == adminGramjs

\* Lines 529-542: AdminUser.findOne decides the method; a non-text message
\* announces the download.
SelectMethod ==
    /\ pc = "select_method"
    /\ \E throws \in BOOLEAN :
        IF throws THEN
            /\ Abort
            /\ UNCHANGED useGramjs
        ELSE
            /\ useGramjs' = gramjsConfigured
            /\ pc' = IF messageType # "text" THEN "download" ELSE "initial_progress"
            /\ UNCHANGED userStates
    /\ UNCHANGED <<storageVars, messageType, fileBuffer, attemptNumber, users,
                   totalUsers, totalSuccessCount, totalFailureCount, failedUsers,
                   retryAttempt, passVars, owed, lastEdit, report, ghostVars>>

needsNoDownload == FALSE
\* Line 78: `userState.mediaData?.fileId && !userState.fileBuffer &&
\* env.TELEGRAM_BOT_TOKEN` (the token is required at start-up).
needsDownload == HasFileId(messageType) /\ ~fileBuffer

\* downloadFileBufferOnce, one turn of its `while (true)`: a fetch that
\* yields a buffer ends the loop (and the local attemptNumber with it); any
\* other outcome sleeps retryDelaysMs[attemptNumber % 5] and tries again.
downloadFileBufferOnce ==
    /\ pc = "download"
    /\ IF needsDownload THEN
           \E fetched \in BOOLEAN :
               IF fetched THEN
                   /\ fileBuffer' = TRUE
                   /\ fileCache' = TRUE
                   /\ cacheEntries' =
                       [cacheEntries EXCEPT
                          !["fileA"] = [present |-> TRUE, downloadedAgo |-> 0]]
                   /\ attemptNumber' = 0
                   /\ pc' = "initial_progress"
                   /\ UNCHANGED owed
               ELSE
                   /\ attemptNumber' = (attemptNumber + 1) % 5
                   /\ owed' = sleep(owed, retryDelaysMs[attemptNumber])
                   /\ UNCHANGED <<fileBuffer, fileCache, cacheEntries, pc>>
       ELSE
           /\ pc' = "initial_progress"
           /\ UNCHANGED <<fileBuffer, fileCache, cacheEntries, attemptNumber, owed>>
    /\ UNCHANGED <<dbUsers, adminGramjs, otherRuns, clientVars, isActive, otpVars,
                   fetching, lastDownload, setupVars, removeVars, userStates,
                   messageType, runVars,
                   passVars, lastEdit, report, ghostVars>>

\* Lines 546-564: the first progress message, the counters, and the call of
\* sendToUsers for the initial pass.
SendInitialProgress ==
    /\ pc = "initial_progress"
    /\ \E throws \in BOOLEAN :
        IF throws THEN
            /\ Abort
            /\ UNCHANGED <<totalSuccessCount, totalFailureCount, failedUsers,
                           passUsers, attemptType, lastEdit>>
        ELSE
            /\ totalSuccessCount' = 0
            /\ totalFailureCount' = 0
            /\ failedUsers' = <<>>
            /\ passUsers' = users
            /\ attemptType' = "Initial"
            /\ lastEdit' = [kind |-> "start", processed |-> 0, pct |-> 0,
                            delivered |-> TRUE]
            /\ pc' = "enter"
            /\ UNCHANGED userStates
    /\ UNCHANGED <<storageVars, messageType, fileBuffer, attemptNumber, users,
                   totalUsers, useGramjs, retryAttempt, i, successCount, failureCount,
                   failedUserIds, owed, report, ghostVars>>

\* sendToUsers, lines 658-670: the counters start from the current totals.
\* In GramJS mode one client is fetched for the pass; when getGramjsClient
\* answers null the sends fetch their own, and a send without a client is a
\* failed GramJS send (GramjsResults, kind "other").
EnterSendToUsers ==
    /\ pc = "enter"
    /\ successCount' = totalSuccessCount
    /\ failureCount' = totalFailureCount
    /\ failedUserIds' = <<>>
    /\ i' = 0
    /\ passSends' = 0
    /\ groupPauses' = 0
    /\ passEdits' = 0
    /\ lastEdit' = NoEdit
    /\ pc' = IF 0 < Len(passUsers) THEN "loop" ELSE "return"
    /\ UNCHANGED <<storageVars, userStates, messageType, fileBuffer, attemptNumber,
                   runVars, passUsers, attemptType, owed, report, attempts, succeeded,
                   lastAttempt, retryRounds>>

EditErrorEscapes(editOk) == ~editOk
\* Lines 817-828 and 583-592: editMessageText sits in a try whose catch
\* logs the error; a failed edit does not leave the try.
EditErrorLeavesRun(editOk) == FALSE

updatesProgressAlways(pct, processedCount, lastOfPass) == TRUE
updatesProgressMidway(pct, processedCount, lastOfPass) == ~lastOfPass
\* Line 818: `progressPercentage % 5 === 0 || processedCount === totalUsers
\* || i + batchSize >= users.length`.
updatesProgress(pct, processedCount, lastOfPass) ==
    \/ pct % 5 = 0
    \/ processedCount = totalUsers
    \/ lastOfPass

\* sendToUsers, lines 673-836: one turn of the batch loop (batchSize = 1):
\* the user's dispatch, the tally, and the progress edit.
ProcessUser ==
    /\ pc = "loop"
    /\ \E d \in dispatchOutcomes(passUsers[i + 1]) :
        LET newSuccess == IF d.success THEN successCount + 1 ELSE successCount
            newFailure == IF d.success THEN failureCount ELSE failureCount + 1
            processedCount == newSuccess + newFailure
            pct == progressPercentage(processedCount, totalUsers)
            edits == updatesProgress(pct, processedCount, i + batchSize >= Len(passUsers))
        IN  /\ successCount' = newSuccess
            /\ failureCount' = newFailure
            /\ failedUserIds' = IF d.success THEN failedUserIds
                                ELSE Append(failedUserIds, d.userId)
            /\ owed' = sleep(d.owed, IF i + batchSize < Len(passUsers)
                                     THEN delayBetweenBatches ELSE 0)
            /\ \E editOk \in (IF edits THEN BOOLEAN ELSE {TRUE}) :
                /\ lastEdit' = IF edits
                                   THEN [kind |-> "progress", processed |-> processedCount,
                                         pct |-> pct, delivered |-> editOk]
                                   ELSE NoEdit
                /\ IF d.escaped \/ EditErrorLeavesRun(editOk) THEN Abort
                   ELSE /\ pc' = IF i + batchSize < Len(passUsers)
                                     THEN "loop" ELSE "return"
                        /\ UNCHANGED userStates
            /\ i' = i + batchSize
            /\ attempts' = IF d.skipped THEN attempts
                           ELSE [attempts EXCEPT ![d.userId] = @ + 1]
            /\ succeeded' = IF d.success THEN succeeded \cup {d.userId}
                            ELSE succeeded
            /\ lastAttempt' = AttemptOf(d)
            /\ passSends' = IF d.skipped THEN passSends ELSE passSends + 1
            /\ groupPauses' = IF d.paused THEN groupPauses + 1 ELSE groupPauses
            /\ passEdits' = IF edits THEN passEdits + 1 ELSE passEdits
    /\ UNCHANGED <<storageVars, messageType, fileBuffer, attemptNumber, runVars,
                   passUsers, attemptType, report, retryRounds>>

\* Lines 606-620: the entries of failedUsers that failed again, each with
\* its try count incremented.
stillFailedUsers ==
    LET again(f) == \E k \in 1..Len(failedUserIds) : failedUserIds[k] = f.userId
        kept == SelectSeq(failedUsers, again)
    IN  [k \in 1..Len(kept) |->
            [userId |-> kept[k].userId, triedCount |-> kept[k].triedCount + 1]]

\* The return of sendToUsers into startForwardingProcess: lines 566-570
\* after the initial pass, lines 600-620 and the loop's increment after a
\* retry pass.
ReturnFromSendToUsers ==
    /\ pc = "return"
    /\ totalSuccessCount' = successCount
    /\ totalFailureCount' = failureCount
    /\ IF attemptType = "Initial" THEN
           /\ failedUsers' = [k \in 1..Len(failedUserIds) |->
                                 [userId |-> failedUserIds[k], triedCount |-> 1]]
           /\ retryAttempt' = 1
       ELSE
           /\ failedUsers' = stillFailedUsers
           /\ retryAttempt' = retryAttempt + 1
    /\ pc' = "retry_head"
    /\ UNCHANGED <<storageVars, userStates, messageType, fileBuffer, attemptNumber,
                   users, totalUsers, useGramjs, passUsers, attemptType, i,
                   successCount, failureCount, failedUserIds, owed, lastEdit, report,
                   ghostVars>>

retrySourceLive == dbUsers
\* Line 577: `users.filter(...)`, users being the array read at line 519.
retrySource == users

retryEveryUser == users
\* Lines 576-579: the snapshot's users that are in failedUsers and, in
\* GramJS mode, have a username.
usersToRetry ==
    LET failed(u) == \E k \in 1..Len(failedUsers) : failedUsers[k].userId = u.userId
        wanted(u) == failed(u) /\ (~useGramjs \/ u.username)
    IN  SelectSeq(retrySource, wanted)

retryLoopStopsEarly == retryAttempt < maxRetries /\ Len(failedUsers) > 0
\* Line 573: the condition of the retry loop.
retryLoopContinues == retryAttempt <= maxRetries /\ Len(failedUsers) > 0

\* Lines 573-598: the head of the retry loop up to the call of sendToUsers:
\* the 2 s delay, the users to retry, the break, the progress edit.
RetryHead ==
    /\ pc = "retry_head"
    /\ IF retryLoopContinues THEN
           /\ owed' = sleep(owed, RETRY_ROUND_DELAY_MS)
           /\ IF Len(usersToRetry) = 0 THEN
                  /\ pc' = "final"
                  /\ UNCHANGED <<passUsers, attemptType, lastEdit, retryRounds,
                                 userStates>>
              ELSE
                  /\ \E editOk \in BOOLEAN :
                        /\ lastEdit' = [kind |-> "retry",
                                        processed |-> Len(usersToRetry),
                                        pct |-> 0, delivered |-> editOk]
                        /\ IF EditErrorLeavesRun(editOk) THEN Abort
                           ELSE pc' = "enter" /\ UNCHANGED userStates
                  /\ passUsers' = usersToRetry
                  /\ attemptType' = "Retry"
                  /\ retryRounds' = retryRounds + 1
       ELSE
           /\ pc' = "final"
           /\ UNCHANGED <<owed, passUsers, attemptType, lastEdit, retryRounds,
                          userStates>>
    /\ UNCHANGED <<storageVars, messageType, fileBuffer, attemptNumber,
                   runVars, i, successCount, failureCount, failedUserIds, report,
                   attempts, succeeded, lastAttempt, passSends, groupPauses,
                   passEdits>>

\* Lines 626-641: the completion message, then the finally block.
FinalReport ==
    /\ pc = "final"
    /\ failedUsers' = <<>>
    /\ userStates' = stateAfterRun
    /\ \E throws \in BOOLEAN :
        IF throws THEN
            /\ pc' = "aborted"
            /\ UNCHANGED report
        ELSE
            /\ report' = [totalUsers |-> totalUsers, succeeded |-> totalSuccessCount,
                          failed |-> totalFailureCount]
            /\ pc' = "reported"
    /\ UNCHANGED <<storageVars, messageType, fileBuffer, attemptNumber, users,
                   totalUsers, useGramjs, totalSuccessCount, totalFailureCount,
                   retryAttempt, passVars, owed, lastEdit, ghostVars>>

Next ==
    \/ FetchUsers
    \/ SelectMethod
    \/ downloadFileBufferOnce
    \/ SendInitialProgress
    \/ EnterSendToUsers
    \/ ProcessUser
    \/ ReturnFromSendToUsers
    \/ RetryHead
    \/ FinalReport

Spec == Init /\ [][Next]_vars

\* --------------------------------------------------------- the conversation
\* handleSendCommand (after requireAdmin): an operator with a userStates
\* entry is told to complete it; otherwise the entry is created.
handleSendCommand ==
    /\ userStates' = IF isActive /\ userStates = "none"
                        THEN "awaiting_message" ELSE userStates
    /\ UNCHANGED <<storageVars, messageType, fileBuffer, attemptNumber, pc, runVars,
                   passVars, owed, lastEdit, report, ghostVars>>

\* handleSendFlow -> handleMessageReceived: in step awaiting_message the
\* message is stored and the step becomes awaiting_confirmation; when the
\* echo or the keyboard reply throws, the catch deletes the entry. The
\* message of an entry created while the followed run is in progress belongs
\* to another state object than the run's: its type is not kept.
handleMessageReceived ==
    /\ userStates = "awaiting_message"
    /\ \E type \in MessageTypes, throws \in BOOLEAN :
        /\ userStates' = IF throws THEN "none" ELSE "awaiting_confirmation"
        /\ messageType' = IF pc = "idle" /\ ~throws THEN type ELSE messageType
    /\ UNCHANGED <<storageVars, fileBuffer, attemptNumber, pc, runVars, passVars,
                   owed, lastEdit, report, ghostVars>>

\* handleSendFlow -> handleCallbackQuery: confirm_send in step
\* awaiting_confirmation launches startForwardingProcess in the background
\* and leaves the entry as it is; confirm_send in another step, cancel_send
\* and a thrown error delete the entry. The first run launched is followed
\* step by step (pc), every later one is counted in otherRuns.
confirmInAnyStep(data) == data = "confirm_send"
\* Lines 482-487: confirm_send is accepted in step awaiting_confirmation
\* with messageId and chatId stored (handleMessageReceived stores them with
\* the step).
confirmAccepted(data) == data = "confirm_send" /\ userStates = "awaiting_confirmation"

handleCallbackQuery ==
    /\ userStates # "none"
    /\ \E data \in {"confirm_send", "cancel_send"}, throws \in BOOLEAN :
        IF ~throws /\ confirmAccepted(data) THEN
            /\ pc # "idle" => otherRuns < MaxOtherRuns
            /\ pc' = IF pc = "idle" THEN "start" ELSE pc
            /\ otherRuns' = IF pc = "idle" THEN otherRuns ELSE otherRuns + 1
            /\ UNCHANGED userStates
        ELSE
            /\ userStates' = "none"
            /\ UNCHANGED <<pc, otherRuns>>
    /\ UNCHANGED <<dbUsers, adminGramjs, clientVars, fileCache, isActive, otpVars, extraVars,
                   messageType, fileBuffer,
                   attemptNumber, runVars, passVars, owed, lastEdit, report, ghostVars>>

\* A run counted in otherRuns ends: lines 638-641, its finally deletes the
\* operator's userStates entry.
OtherRunEnds ==
    /\ otherRuns > 0
    /\ otherRuns' = otherRuns - 1
    /\ userStates' = stateAfterRun
    /\ UNCHANGED <<dbUsers, adminGramjs, clientVars, fileCache, isActive, otpVars, extraVars,
                   messageType, fileBuffer,
                   attemptNumber, pc, runVars, passVars, owed, lastEdit, report,
                   ghostVars>>

\* The User collections of the runs started from the conversation.
FlowTables == {t \in UserTables : Len(t) <= MaxFlowUsers}

\* The bot after start-up: userStates is empty and nothing runs.
FlowInit ==
    /\ Fresh(FlowTables)
    /\ otpServer = "index_webhook_express"
    /\ userStates = "none"
    /\ messageType = "none"
    /\ pc = "idle"

FlowNext ==
    \/ Next
    \/ handleSendCommand
    \/ handleMessageReceived
    \/ handleCallbackQuery
    \/ OtherRunEnds

FlowSpec == FlowInit /\ [][FlowNext]_vars

\* handleRemoveAdminCommand -> removeAdmin, and handleAddAdminCommand ->
\* addAdmin, issued by another admin for the operator: findOneAndUpdate
\* sets isActive.
setAdminActive(active) ==
    /\ isActive' = active
    /\ activeAdmins' = IF active THEN activeAdmins \cup {"operator"}
                                ELSE activeAdmins \ {"operator"}
    /\ UNCHANGED <<dbUsers, adminGramjs, otherRuns, clientVars, fileCache, otpVars,
                   fileVars, setupVars, removing,
                   userStates, messageType, fileBuffer, attemptNumber, pc, runVars,
                   passVars, owed, lastEdit, report, ghostVars>>

removeAdmin == isActive /\ setAdminActive(FALSE)

addAdmin == ~isActive /\ setAdminActive(TRUE)

\* The conversation and the runs of an operator whose admin access other
\* admins revoke and restore.
AdminNext ==
    \/ FlowNext
    \/ removeAdmin
    \/ addAdmin

AdminSpec == FlowInit /\ [][AdminNext]_vars

\* ------------------------------------------------- the User collection moves
\* The run has read its snapshot and has not ended.
RunInProgress == pc \notin {"idle", "start", "empty", "reported", "aborted"}

\* The User collection is written outside the bot: while a run is in
\* progress a recipient (without username) is added as a new last row, or
\* the last row is removed; the collection is followed up to one row away
\* from the snapshot's length.
UserStoreChanges ==
    /\ RunInProgress
    /\ \/ /\ Len(dbUsers) <= Len(users)
          /\ dbUsers' = Append(dbUsers, UserRow(Len(dbUsers) + 1, FALSE))
       \/ /\ Len(dbUsers) >= Len(users) /\ Len(dbUsers) > 0
          /\ dbUsers' = SubSeq(dbUsers, 1, Len(dbUsers) - 1)
    /\ UNCHANGED <<adminGramjs, otherRuns, clientVars, fileCache, isActive, otpVars, extraVars,
                   userStates,
                   messageType, fileBuffer,
                   attemptNumber, pc, runVars, passVars, owed, lastEdit, report,
                   ghostVars>>

StoreInit == RunStart(FlowTables)

StoreNext == Next \/ UserStoreChanges

StoreSpec == StoreInit /\ [][StoreNext]_vars

\* ---------------------------------------------------------------------------
\* The OTP sessions of the express servers.
\* ---------------------------------------------------------------------------

\* index_webhook_express.ts keeps the sessions, their handlers and the
\* cleanup interval in one file; the server built on AuthControllers
\* registers the handlers of controllers/AuthControllers.ts, which read the
\* map exported by utils/otpSessions.ts, beside a map and an interval of
\* its own.
Servers == {"index_webhook_express", "AuthControllers"}

\* The state of the broadcast and of the operator.
sendVars ==
    <<dbUsers, adminGramjs, otherRuns, clientVars, fileCache, isActive, userStates,
      messageType, fileBuffer, attemptNumber, pc, runVars, passVars, owed, lastEdit,
      report, ghostVars>>

\* What no request to the server and no firing of its interval writes.
botVars == <<sendVars, extraVars>>

\* Whether the interval of the server iterates the map its handlers read.
sweptByServer == otpServer = "index_webhook_express"

\* The values of the otp field of a submission's body: none or empty,
\* blank, five digits with spaces around, four digits, six digits, five
\* characters that are not all digits.
OtpInputs ==
    { <<>>,
      <<" ">>,
      <<" ", "1", "2", "3", "4", "5", " ">>,
      <<"1", "2", "3", "4">>,
      <<"1", "2", "3", "4", "5", "6">>,
      <<"1", "2", "a", "4", "5">> }

Digits == {"0", "1", "2", "3", "4", "5", "6", "7", "8", "9"}

RECURSIVE trimStart(_)
trimStart(str) ==
    IF str # <<>> /\ Head(str) = " " THEN trimStart(Tail(str)) ELSE str

RECURSIVE trimEnd(_)
trimEnd(str) ==
    IF str # <<>> /\ str[Len(str)] = " "
        THEN trimEnd(SubSeq(str, 1, Len(str) - 1)) ELSE str

\* String.prototype.trim.
trim(str) == trimEnd(trimStart(str))

acceptsAnything(type, otp) == TRUE
\* postOtpSubmission, lines 170-192: an empty value is refused, and for a
\* session of type 'code' a value that /^\d{5}$/ does not match.
acceptsSubmission(type, otp) ==
    /\ trim(otp) # <<>>
    /\ type = "code" =>
        /\ Len(trim(otp)) = 5
        /\ \A k \in 1..Len(trim(otp)) : trim(otp)[k] \in Digits

\* createOtpSession: a session of the type asked for is stored under a new
\* id with the current time as timestamp.
createOtpSession ==
    /\ ~otpSession.present
    /\ \E type \in {"code", "password"} :
        otpSession' = [present |-> TRUE, age |-> 0, confirmed |-> FALSE,
                       type |-> type, otp |-> NoOtp]
    /\ UNCHANGED <<otpServer, sweepIn, otpAnswer, answeredAge, statusOtp, botVars>>

\* What a handler answers for the id: 404 when otpSessions.get finds nothing.
Answer ==
    /\ otpAnswer' = IF otpSession.present THEN "found" ELSE "not_found"
    /\ answeredAge' = IF otpSession.present THEN otpSession.age ELSE answeredAge

\* getOtpForm: the form of the session found.
getOtpForm ==
    /\ Answer
    /\ UNCHANGED <<otpServer, otpSession, sweepIn, statusOtp, botVars>>

\* getOtpStatus: `otp: session.confirmed ? session.otp : null`.
getOtpStatus ==
    /\ Answer
    /\ statusOtp' = IF otpSession.present /\ otpSession.confirmed
                       THEN otpSession.otp ELSE NoOtp
    /\ UNCHANGED <<otpServer, otpSession, sweepIn, botVars>>

\* postOtpSubmission: 404 without a session, 400 for a value refused;
\* otherwise the trimmed value is stored, the session is confirmed and its
\* timestamp is set to the current time.
postOtpSubmission ==
    /\ \E otp \in OtpInputs :
        IF ~otpSession.present THEN
            /\ otpAnswer' = "not_found"
            /\ UNCHANGED <<otpSession, answeredAge>>
        ELSE IF ~acceptsSubmission(otpSession.type, otp) THEN
            /\ otpAnswer' = "bad_request"
            /\ answeredAge' = otpSession.age
            /\ UNCHANGED otpSession
        ELSE
            /\ otpAnswer' = "accepted"
            /\ answeredAge' = otpSession.age
            /\ otpSession' = [otpSession EXCEPT !.otp = trim(otp),
                                                !.confirmed = TRUE, !.age = 0]
    /\ UNCHANGED <<otpServer, sweepIn, statusOtp, botVars>>

\* Time passes up to the next firing of the interval.
Tick ==
    /\ sweepIn > 0
    /\ otpSession.present => otpSession.age < MaxTicks * TickMs
    /\ sweepIn' = sweepIn - TickMs
    /\ otpSession' = IF otpSession.present
                         THEN [otpSession EXCEPT !.age = @ + TickMs]
                         ELSE otpSession
    /\ UNCHANGED <<otpServer, otpAnswer, answeredAge, statusOtp, botVars>>

\* The setInterval callback: `if (now - session.timestamp > 10 * 60 * 1000)
\* otpSessions.delete(sessionId)` over the server's own map.
cleanupExpiredSessions ==
    /\ sweepIn = 0
    /\ sweepIn' = CLEANUP_INTERVAL_MS
    /\ otpSession' = IF sweptByServer /\ otpSession.age > SESSION_EXPIRY_MS
                         THEN NoSession ELSE otpSession
    /\ UNCHANGED <<otpServer, otpAnswer, answeredAge, statusOtp, botVars>>

\* The bot idle, and the requests that reach the server.
OtpInit ==
    /\ Fresh({<<>>})
    /\ ~adminGramjs
    /\ userStates = "none"
    /\ messageType = "none"
    /\ pc = "idle"
    /\ otpServer \in Servers

OtpNext ==
    \/ createOtpSession
    \/ getOtpForm
    \/ getOtpStatus
    \/ postOtpSubmission
    \/ Tick
    \/ cleanupExpiredSessions

OtpSpec == OtpInit /\ [][OtpNext]_vars

\* ---------------------------------------------------------------------------
\* ------------------------------------------------------------------
\* The cache of downloaded files: downloadFileFromTelegram.
\* ------------------------------------------------------------------

FileTickMs == CACHE_EXPIRY_MS \div 2

isCacheValidInclusive(cachedFile) == cachedFile.downloadedAgo <= CACHE_EXPIRY_MS
\* isCacheValid: Date.now() - cachedFile.downloadedAt < CACHE_EXPIRY_MS.
isCacheValid(cachedFile) == cachedFile.downloadedAgo < CACHE_EXPIRY_MS

\* downloadFileFromTelegram up to its first await: a valid entry is
\* answered at once; otherwise the call goes on to the Bot API.
downloadCall(fileId) ==
    /\ fileId \notin fetching
    /\ IF cacheEntries[fileId].present /\ isCacheValid(cacheEntries[fileId])
          THEN /\ lastDownload' = [fileId |-> fileId, answer |-> "cached"]
               /\ UNCHANGED fetching
          ELSE /\ lastDownload' = [fileId |-> fileId, answer |-> "fetching"]
               /\ fetching' = fetching \cup {fileId}
    /\ UNCHANGED cacheEntries

\* The rest of the call: getFile and the download of the file.  A refusal
\* of either, or an exception, answers null; a download sets the entry
\* with downloadedAt: Date.now().
downloadFetched(fileId) ==
    /\ fileId \in fetching
    /\ fetching' = fetching \ {fileId}
    /\ \E ok \in BOOLEAN :
        IF ok
          THEN /\ cacheEntries' = [cacheEntries EXCEPT
                                     ![fileId] = [present |-> TRUE, downloadedAgo |-> 0]]
               /\ lastDownload' = [fileId |-> fileId, answer |-> "buffer"]
          ELSE /\ lastDownload' = [fileId |-> fileId, answer |-> "null"]
               /\ UNCHANGED cacheEntries

downloadFileFromTelegram ==
    /\ \E fileId \in FileIds : downloadCall(fileId) \/ downloadFetched(fileId)
    /\ fileCache' = cacheEntries'["fileA"].present
    /\ UNCHANGED <<dbUsers, adminGramjs, otherRuns, clientVars, isActive, otpVars,
                   setupVars, removeVars, userStates, messageType, fileBuffer,
                   attemptNumber, pc, runVars, passVars, owed, lastEdit, report,
                   ghostVars>>

\* Time passes: every entry grows older.
FileTick ==
    /\ \A f \in FileIds : cacheEntries[f].downloadedAgo < MaxFileTicks * FileTickMs
    /\ \E f \in FileIds : cacheEntries[f].present
    /\ cacheEntries' =
        [f \in FileIds |->
            IF cacheEntries[f].present
              THEN [cacheEntries[f] EXCEPT !.downloadedAgo = @ + FileTickMs]
              ELSE cacheEntries[f]]
    /\ UNCHANGED <<fetching, lastDownload, setupVars, removeVars, otpVars, sendVars>>

FileInit ==
    /\ Fresh({<<>>})
    /\ ~adminGramjs
    /\ otpServer = "index_webhook_express"
    /\ userStates = "none"
    /\ messageType = "none"
    /\ pc = "idle"

FileNext == downloadFileFromTelegram \/ FileTick

FileSpec == FileInit /\ [][FileNext]_vars

\* ------------------------------------------------------------------
\* The GramJS setup: /gramjs_setup, the setup flow, /gramjs_authenticate,
\* the authentication and /gramjs_reset.
\* ------------------------------------------------------------------

DigitValue ==
    [c \in Digits |->
        CASE c = "0" -> 0 [] c = "1" -> 1 [] c = "2" -> 2 [] c = "3" -> 3 [] c = "4" -> 4
          [] c = "5" -> 5 [] c = "6" -> 6 [] c = "7" -> 7 [] c = "8" -> 8 [] c = "9" -> 9]

\* The longest prefix of digits.
RECURSIVE leadingDigits(_)
leadingDigits(str) ==
    IF str # <<>> /\ Head(str) \in Digits
        THEN <<Head(str)>> \o leadingDigits(Tail(str)) ELSE <<>>

RECURSIVE toNumber(_)
toNumber(digits) ==
    IF digits = <<>> THEN 0
    ELSE 10 * toNumber(SubSeq(digits, 1, Len(digits) - 1)) + DigitValue[digits[Len(digits)]]

\* parseInt(messageText) of a trimmed text without a 0x prefix: an optional
\* sign and the digits that follow it, whatever comes after them; NaN when
\* there is no digit there.
parseInt(str) ==
    LET signed == str # <<>> /\ Head(str) \in {"+", "-"}
        digits == leadingDigits(IF signed THEN Tail(str) ELSE str)
        sign == IF signed /\ Head(str) = "-" THEN -1 ELSE 1
    IN [isNaN |-> digits = <<>>, value |-> sign * toNumber(digits)]

\* handleApiIdStep: `isNaN(apiId) || apiId <= 0` is refused.
apiIdAccepted(messageText) ==
    ~parseInt(messageText).isNaN /\ parseInt(messageText).value > 0

\* handleApiHashStep: `!messageText || messageText.length < 10` is refused.
apiHashAccepted(messageText) == Len(messageText) >= 10

\* handlePhoneStep: /^\+[1-9]\d{1,14}$/.
phoneAccepted(messageText) ==
    /\ Len(messageText) \in 3..16
    /\ messageText[1] = "+"
    /\ messageText[2] \in Digits \ {"0"}
    /\ \A k \in 3..Len(messageText) : messageText[k] \in Digits

isCancel(messageText) == messageText = <<"/", "c", "a", "n", "c", "e", "l">>

\* How the replies of a handler end: all are sent ("ok"); one throws and
\* the catch that deletes the state runs ("caught"); or the reply of that
\* catch throws too, before the delete ("uncaught").
ReplyOutcomes == {"ok", "caught", "uncaught"}

\* The state a handler leaves when it has written `written` to the entry.
afterReplies(written, outcome) == IF outcome = "caught" THEN NoSetup ELSE written

\* The stored row matches the query of startForwardingProcess.
rowConfigured(row) == row.gramjsActive /\ row.gramjsSession

\* What the setup and the authentication leave alone.
setupFrame ==
    UNCHANGED <<dbUsers, otherRuns, clientVars, fileCache, isActive, otpVars, fileVars,
                removeVars,
                userStates, messageType, fileBuffer, attemptNumber, pc, runVars,
                passVars, owed, lastEdit, report, ghostVars>>

\* /gramjs_setup (requireAdmin): refused when gramjsActive, else a new
\* setup state in its first step.
handleGramjsSetupCommand ==
    /\ isActive
    /\ \E outcome \in ReplyOutcomes :
        setupStates' =
            IF adminRow.gramjsActive
                THEN (IF outcome = "caught" THEN NoSetup ELSE setupStates)
                ELSE afterReplies([NoSetup EXCEPT !.step = "awaiting_api_id"], outcome)
    /\ UNCHANGED <<setupInput, adminRow, authStates, adminGramjs>>
    /\ setupFrame

\* handleSetupFlow with the step handlers: a message of the operator while
\* a setup state exists.
handleSetupFlow ==
    /\ setupStates.step # "none"
    /\ \E messageText \in SetupInputs, outcome \in ReplyOutcomes, saved \in BOOLEAN :
        /\ setupInput' = messageText
        /\ IF isCancel(messageText) THEN
               /\ setupStates' = NoSetup
               /\ UNCHANGED adminRow
           ELSE IF setupStates.step = "awaiting_api_id" THEN
               /\ setupStates' =
                    afterReplies(
                        IF apiIdAccepted(messageText)
                            THEN [setupStates EXCEPT !.apiId = parseInt(messageText).value,
                                                     !.step = "awaiting_api_hash"]
                            ELSE setupStates, outcome)
               /\ UNCHANGED adminRow
           ELSE IF setupStates.step = "awaiting_api_hash" THEN
               /\ setupStates' =
                    afterReplies(
                        IF apiHashAccepted(messageText)
                            THEN [setupStates EXCEPT !.apiHash = messageText,
                                                     !.step = "awaiting_phone"]
                            ELSE setupStates, outcome)
               /\ UNCHANGED adminRow
           ELSE IF ~phoneAccepted(messageText) THEN
               /\ setupStates' = afterReplies(setupStates, outcome)
               /\ UNCHANGED adminRow
           ELSE IF saved THEN
               \* updateOne and setupStates.delete; a failure of the last
               \* reply is caught after both
               /\ adminRow' = [adminRow EXCEPT
                                 !.gramjsApiId = setupStates.apiId,
                                 !.gramjsApiHash = setupStates.apiHash,
                                 !.gramjsPhoneNumber = messageText,
                                 !.gramjsActive = FALSE]
               /\ setupStates' = NoSetup
           ELSE
               \* the first reply or updateOne throws
               /\ setupStates' =
                    afterReplies([setupStates EXCEPT !.phoneNumber = messageText],
                                 IF outcome = "ok" THEN "caught" ELSE outcome)
               /\ UNCHANGED adminRow
    /\ adminGramjs' = rowConfigured(adminRow')
    /\ UNCHANGED authStates
    /\ setupFrame

\* /gramjs_authenticate (requireAdmin): needs the three credentials in
\* the row and gramjsActive false; the auth state copies the credentials.
handleGramjsAuthenticateCommand ==
    /\ isActive
    /\ authStates' =
        IF /\ adminRow.gramjsApiId # 0
           /\ adminRow.gramjsApiHash # NoText
           /\ adminRow.gramjsPhoneNumber # NoText
           /\ ~adminRow.gramjsActive
          THEN [step |-> "awaiting_start", gramjsApiId |-> adminRow.gramjsApiId,
                gramjsApiHash |-> adminRow.gramjsApiHash]
          ELSE authStates
    /\ UNCHANGED <<setupStates, setupInput, adminRow, adminGramjs>>
    /\ setupFrame

\* handleAuthFlow, reached when no setup state exists: START begins
\* client.start in the background, /cancel deletes the auth state.
handleAuthFlow ==
    /\ setupStates.step = "none"
    /\ authStates.step # "none"
    /\ \E cancel \in BOOLEAN :
        authStates' =
            IF cancel THEN NoAuth
            ELSE IF authStates.step = "awaiting_start"
                THEN [authStates EXCEPT !.step = "authenticating"]
                ELSE authStates
    /\ UNCHANGED <<setupStates, setupInput, adminRow, adminGramjs>>
    /\ setupFrame

\* The end of client.start: completeAuthentication stores the session with
\* gramjsActive: true, and nothing else, in the row; a failure of the
\* authentication, of getMe or of the update only deletes the auth state.
completeAuthentication ==
    /\ authStates.step = "authenticating"
    /\ \E ok \in BOOLEAN :
        adminRow' = IF ok THEN [adminRow EXCEPT !.gramjsSession = TRUE,
                                                !.gramjsActive = TRUE]
                          ELSE adminRow
    /\ authStates' = NoAuth
    /\ adminGramjs' = rowConfigured(adminRow')
    /\ UNCHANGED <<setupStates, setupInput>>
    /\ setupFrame

\* /gramjs_reset (requireAdmin): unsets the gramjs fields of the row and
\* deletes the setup state; a failure of the update leaves both.
handleGramjsResetCommand ==
    /\ isActive
    /\ \E ok \in BOOLEAN :
        /\ adminRow' = IF ok THEN EmptyRow ELSE adminRow
        /\ setupStates' = IF ok THEN NoSetup ELSE setupStates
    /\ adminGramjs' = rowConfigured(adminRow')
    /\ UNCHANGED <<setupInput, authStates>>
    /\ setupFrame

SetupInit ==
    /\ Fresh({<<>>})
    /\ ~adminGramjs
    /\ otpServer = "index_webhook_express"
    /\ userStates = "none"
    /\ messageType = "none"
    /\ pc = "idle"

SetupNext ==
    \/ handleGramjsSetupCommand
    \/ handleSetupFlow
    \/ handleGramjsAuthenticateCommand
    \/ handleAuthFlow
    \/ completeAuthentication
    \/ handleGramjsResetCommand

SetupSpec == SetupInit /\ [][SetupNext]_vars

\* ------------------------------------------------------------------
\* /removeadmin issued by several admins: each update is handled on its
\* own, so the commands interleave at their awaits.
\* ------------------------------------------------------------------

\* What /removeadmin leaves alone.
removeFrame ==
    UNCHANGED <<dbUsers, adminGramjs, otherRuns, clientVars, fileCache, otpVars,
                fileVars, setupVars, userStates, messageType, fileBuffer,
                attemptNumber, pc, runVars, passVars, owed, lastEdit, report,
                ghostVars>>

\* bot.command('removeadmin', requireAdmin, ...): findOne({userId, isActive:
\* true}) lets the command of an active admin through to its handler; the
\* command names its target in its text.
requireAdmin(a) ==
    /\ removing[a] = NoCommand
    /\ \E adminToRemove \in Admins :
        removing' = IF a \in activeAdmins
                        THEN [removing EXCEPT ![a] = adminToRemove] ELSE removing
    /\ UNCHANGED <<activeAdmins, isActive>>
    /\ removeFrame

\* handleRemoveAdminCommand, lines 72-76: `adminToRemove === userId` is
\* refused.
removesOther(a, adminToRemove) == adminToRemove # a

\* handleRemoveAdminCommand after the middleware: removeAdmin sets isActive
\* false in the row of the target; nothing reads the issuer's row again.
handleRemoveAdminCommand(a) ==
    /\ removing[a] # NoCommand
    /\ removing' = [removing EXCEPT ![a] = NoCommand]
    /\ activeAdmins' = IF removesOther(a, removing[a])
                           THEN activeAdmins \ {removing[a]} ELSE activeAdmins
    /\ isActive' = ("operator" \in activeAdmins')
    /\ removeFrame

RemoveInit ==
    /\ Fresh({<<>>})
    /\ ~adminGramjs
    /\ otpServer = "index_webhook_express"
    /\ userStates = "none"
    /\ messageType = "none"
    /\ pc = "idle"

RemoveNext ==
    \E a \in Admins :
        \/ requireAdmin(a)
        \/ handleRemoveAdminCommand(a)

RemoveSpec == RemoveInit /\ [][RemoveNext]_vars

\* The operator's GramJS client: getGramjsClient and its callers.
\* ---------------------------------------------------------------------------

\* What a caller does with the answer of getGramjsClient ("none": null).
\* sendToUsers, line 665-669: the pass keeps it as gramClient.  A send that
\* fetched its own client (part_004 line 127, part_008 line 315) sends on it,
\* or returns false when there is none.  testGramjsConnection returns.
Receives(c, client) ==
    /\ gAt' = [gAt EXCEPT ![c] = "out"]
    /\ IF c = "sendToUsers" THEN
            /\ runAt' = "ensure"
            /\ IF runAt = "get_client" THEN
                    /\ gramClient' = client
                    /\ cachedIsMine' = (client # "none")
                    /\ UNCHANGED sentOn
               ELSE
                    /\ sentOn' = IF client = "none" THEN sentOn ELSE client
                    /\ cachedIsMine' = IF client = "none" THEN cachedIsMine ELSE FALSE
                    /\ UNCHANGED gramClient
       ELSE UNCHANGED <<runAt, gramClient, cachedIsMine, sentOn>>

\* The places where a caller calls getGramjsClient: the start of a pass, a
\* send without a client of the pass or of message content, and a command.
Calls(c) ==
    /\ gAt[c] = "out"
    /\ c = "sendToUsers" =>
        /\ pc = "enter" /\ useGramjs
        /\ \/ runAt = "get_client"
           \/ runAt = "send" /\ (~fileBuffer \/ gramClient = "none")

\* getGramjsClient, lines 169-226 of gramjsClient.ts, one await at a time.
\* Nothing records that a connect for the operator is already in progress.
getGramjsClient(c) ==
    /\ \/ /\ Calls(c)
          /\ IF clientCache = "connected"
                THEN Receives(c, "connected") /\ UNCHANGED <<clientCache, adminGramjs>>
                ELSE /\ gAt' = [gAt EXCEPT ![c] = "findOne"]
                     /\ UNCHANGED <<clientCache, cachedIsMine, gramClient, runAt,
                                    sentOn, adminGramjs>>
       \/ /\ gAt[c] = "findOne"
          /\ IF adminGramjs
                THEN /\ gAt' = [gAt EXCEPT ![c] = "connect"]
                     /\ UNCHANGED <<cachedIsMine, gramClient, runAt, sentOn>>
                ELSE Receives(c, "none")
          /\ UNCHANGED <<clientCache, adminGramjs>>
       \/ /\ gAt[c] = "connect"
          /\ \E throws \in BOOLEAN :
                IF throws
                    THEN Receives(c, "none")
                    ELSE /\ gAt' = [gAt EXCEPT ![c] = "getMe"]
                         /\ UNCHANGED <<cachedIsMine, gramClient, runAt, sentOn>>
          /\ UNCHANGED <<clientCache, adminGramjs>>
       \/ /\ gAt[c] = "getMe"
          /\ \E throws \in BOOLEAN :
                IF throws
                    THEN /\ adminGramjs' = FALSE
                         /\ Receives(c, "none")
                         /\ UNCHANGED clientCache
                    ELSE /\ clientCache' = "connected"
                         /\ Receives(c, "connected")
                         /\ UNCHANGED adminGramjs
    /\ adminRow' = IF adminGramjs' = adminGramjs
                      THEN adminRow ELSE [adminRow EXCEPT !.gramjsActive = FALSE]
    /\ UNCHANGED <<dbUsers, otherRuns, fileCache, isActive, otpVars, fileVars,
                   setupStates, setupInput, authStates, removeVars, userStates,
                   messageType,
                   fileBuffer,
                   attemptNumber, pc, runVars, passVars, owed, lastEdit, report,
                   ghostVars>>

\* ensureClientConnected, lines 65-73: a failed connect is logged and the
\* caller goes on with the client as it is.
connectOutcome(ok) == IF ok THEN "connected" ELSE "disconnected"

\* sendToUsers, lines 699 and 728: `if (gramClient) await
\* ensureClientConnected(gramClient)` before the send of a turn.
ensureClientConnected ==
    /\ pc = "enter" /\ useGramjs
    /\ \/ /\ runAt = "ensure"
          /\ runAt' = IF gramClient = "disconnected" THEN "reconnect" ELSE "send"
          /\ UNCHANGED <<gramClient, clientCache>>
       \/ /\ runAt = "reconnect"
          /\ \E ok \in BOOLEAN :
                /\ gramClient' = connectOutcome(ok)
                /\ clientCache' = IF cachedIsMine THEN connectOutcome(ok) ELSE clientCache
          /\ runAt' = "send"
    /\ UNCHANGED <<dbUsers, adminGramjs, otherRuns, fileCache, isActive, otpVars,
                   extraVars, cachedIsMine,
                   gAt, sentOn,
                   userStates, messageType, fileBuffer, attemptNumber, pc, runVars,
                   passVars, owed, lastEdit, report, ghostVars>>

\* sendMessageWithCachedBuffer, line 127: `client ?? ...`, the send of a
\* downloaded file goes out on the client of the pass.
SendOnPassClient ==
    /\ pc = "enter" /\ useGramjs
    /\ runAt = "send" /\ fileBuffer /\ gramClient # "none"
    /\ sentOn' = gramClient
    /\ runAt' = "ensure"
    /\ UNCHANGED <<dbUsers, adminGramjs, otherRuns, fileCache, isActive, otpVars,
                   extraVars, clientCache,
                   cachedIsMine,
                   gramClient, gAt, userStates, messageType, fileBuffer,
                   attemptNumber, pc, runVars, passVars, owed, lastEdit, report,
                   ghostVars>>

\* The connection of the operator's clients is lost between two turns.
ConnectionDrops ==
    /\ runAt = "ensure"
    /\ clientCache = "connected" \/ gramClient = "connected"
    /\ clientCache' = IF clientCache = "none" THEN "none" ELSE "disconnected"
    /\ gramClient' = IF gramClient = "none" THEN "none" ELSE "disconnected"
    /\ UNCHANGED <<dbUsers, adminGramjs, otherRuns, fileCache, isActive, otpVars,
                   extraVars, cachedIsMine,
                   runAt, gAt,
                   sentOn,
                   userStates, messageType, fileBuffer, attemptNumber, pc, runVars,
                   passVars, owed, lastEdit, report, ghostVars>>

\* A run of one GramJS-configured operator up to and in its first pass, and
\* /gramjs_test or /gramjs_status of the same operator beside it.
ClientInit == RunStart(FlowTables) /\ adminGramjs

ClientNext ==
    \/ FetchUsers
    \/ SelectMethod
    \/ downloadFileBufferOnce
    \/ SendInitialProgress
    \/ \E c \in Callers : getGramjsClient(c)
    \/ ensureClientConnected
    \/ SendOnPassClient
    \/ ConnectionDrops

ClientSpec == ClientInit /\ [][ClientNext]_vars

\* The same run over a User collection that holds a userId twice.
DupInit == RunStart(DupTables)

DupSpec == DupInit /\ [][Next]_vars

\* The run is an async function on the event loop: a step that can be taken
\* is taken; what a fetch, a send or an edit answers stays free.
FairSpec == Spec /\ WF_vars(Next)

\* The download comes to an end: a fetch answers the file.
DownloadEnds == downloadFileBufferOnce /\ pc' # "download"

\* A confirmed run of the operator and the /send commands the operator
\* issues during and after it, every step of the run that can be taken being
\* taken and every download coming to an end.
RestartNext == Next \/ handleSendCommand

RestartSpec ==
    /\ StoreInit
    /\ [][RestartNext]_vars
    /\ WF_vars(Next)
    /\ WF_vars(DownloadEnds)

\* ------------------------------------------------------------- properties
FailedUserIdsOf(entries) == {entries[k].userId : k \in 1..Len(entries)}

RecipientHasUsername(id) ==
    \E k \in 1..Len(users) : users[k].userId = id /\ users[k].username

\* The initial pass has processed its last user.
InitialPassOver ==
    \/ pc \in {"return", "retry_head", "final", "reported"}
    \/ attemptType = "Retry"

\* Recipients of the snapshot no send has succeeded for.
NeverSucceeded == {r \in 1..totalUsers : r \notin succeeded}

\* C1: when the run reaches its final report, the reported succeeded count
\* plus the reported failed count equals the total number of recipients.
C1_Conservation ==
    pc = "reported" => report.succeeded + report.failed = report.totalUsers

\* C2: no recipient is the target of more than 4 delivery attempts in a run
\* (the initial one and one per retry round, at most 3 rounds), a GramJS send
\* with its Bot API fallback being one attempt with at most one send on each
\* channel.
C2_RetryCeiling ==
    /\ \A r \in UserIds : attempts[r] <= 4
    /\ lastAttempt.priCalls <= 1

C2_Witness ==
    \E r \in UserIds : attempts[r] = 4 /\ lastAttempt.secUsed /\ lastAttempt.priCalls = 1

\* C3: in GramJS mode, when the GramJS send of an attempt fails, the Bot API
\* send is made exactly once in that attempt; when it succeeds the recipient
\* is recorded as succeeded and is not in the pass's failed ids nor, once
\* the pass is merged, in failedUsers.
C3_FallbackOnSecondaryFailure ==
    (lastAttempt.secUsed /\ ~lastAttempt.secOk) =>
        /\ lastAttempt.priCalls = 1
        /\ lastAttempt.priOk =>
            /\ lastAttempt.success
            /\ lastAttempt.userId \in succeeded
            /\ lastAttempt.userId \notin Range(failedUserIds)
            /\ pc \in {"retry_head", "enter", "final"} =>
                   lastAttempt.userId \notin FailedUserIdsOf(failedUsers)

C3_Witness ==
    /\ lastAttempt.secUsed /\ ~lastAttempt.secOk /\ lastAttempt.priOk
    /\ pc = "retry_head"
    /\ Len(failedUsers) > 0

\* C4: in GramJS mode a recipient without a username is sent through the
\* Bot API in its attempt, and the attempt's recorded outcome is that of the
\* Bot API send.
C4_NoHandleGoesPrimary ==
    (useGramjs /\ lastAttempt.userId # 0 /\ ~RecipientHasUsername(lastAttempt.userId)) =>
        /\ lastAttempt.priCalls = 1
        /\ lastAttempt.success = lastAttempt.priOk

\* C5: in GramJS mode the GramJS sender is never invoked for a recipient
\* without a username: no loop iteration does it, and no retry pass even
\* holds such a recipient.
C5_NoSecondaryWithoutHandle ==
    /\ lastAttempt.secUsed => RecipientHasUsername(lastAttempt.userId)
    /\ (useGramjs /\ attemptType = "Retry") =>
           \A k \in 1..Len(passUsers) : passUsers[k].username

C5_Witness ==
    /\ useGramjs
    /\ retryRounds >= 1
    /\ pc = "reported"
    /\ \E k \in 1..Len(users) : ~users[k].username /\ attempts[users[k].userId] = 0

\* C6: once a send to a recipient has succeeded, no step of the run makes
\* another delivery attempt to that recipient.
C6_NoSendAfterSuccess ==
    [][\A r \in UserIds : r \in succeeded => attempts'[r] = attempts[r]]_vars

C6_Witness ==
    /\ retryRounds >= 2
    /\ \E r \in succeeded : attempts[r] = 1
    /\ \E r \in succeeded : attempts[r] = 2
    /\ \E r \in UserIds : attempts[r] = 3

\* C7: a retry round starts only while failedUsers is non-empty, there are
\* never more than 3 of them, and at the final report every recipient that
\* was attempted and never succeeded has had its 4 attempts in exactly 3
\* retry rounds and is counted as failed.
C7_RetryRounds ==
    /\ [](retryRounds <= 3)
    /\ [][retryRounds' > retryRounds => Len(failedUsers) > 0]_vars
    /\ [](pc = "reported" =>
            /\ \A r \in NeverSucceeded :
                   attempts[r] >= 1 => (attempts[r] = 4 /\ retryRounds = 3)
            /\ report.failed >= Cardinality(NeverSucceeded)
            /\ report.succeeded <= totalUsers - Cardinality(NeverSucceeded))

C7_Witness ==
    /\ pc = "reported"
    /\ retryRounds = 3
    /\ \E r \in NeverSucceeded : attempts[r] = 4
    /\ succeeded # {}

C9_GroupPauseEveryThree ==
    groupPauses >= passSends \div GROUP_SEND_COUNT

\* C10: a send on a channel is issued only when every wait that channel's
\* rate-limit errors announced has been slept through, on the GramJS channel
\* as on the Bot API channel.
C10_WaitHintHonoured ==
    /\ lastAttempt.secUsed => lastAttempt.secOwedAtSend = 0
    /\ lastAttempt.priCalls > 0 => lastAttempt.priOwedAtSend = 0

\* A step that calls downloadFileFromTelegram: it either stores the buffer
\* or moves attemptNumber on.
FetchStep == fileBuffer' # fileBuffer \/ attemptNumber' # attemptNumber

\* The positions of the run from the first call of sendToUsers on.
Dispatching == pc \in {"enter", "loop", "return", "retry_head", "final", "reported"}

\* C11 as stated: the media buffer is fetched exactly once per run: a run
\* that has fetched (with or without result) does not fetch again, and the
\* dispatch of a media message starts with the buffer.
C11_FetchExactlyOnce ==
    /\ [][(fileBuffer \/ attemptNumber > 0) => ~FetchStep]_vars
    /\ []((Dispatching /\ HasFileId(messageType)) => fileBuffer)

\* C11: the media buffer is fetched only before the first recipient is
\* attempted, a fetch that fails being repeated until one yields the buffer;
\* exactly one fetch yields it, no fetch follows it whatever the number of
\* recipients and retry rounds, and the dispatch starts with the buffer.
C11_FetchOnceSucceeded ==
    /\ [][FetchStep => (pc = "download" /\ ~fileBuffer /\ lastAttempt = NoAttempt)]_vars
    /\ [][fileBuffer => fileBuffer']_vars
    /\ []((Dispatching /\ HasFileId(messageType)) => fileBuffer)

C11_Witness ==
    /\ pc = "reported"
    /\ fileBuffer
    /\ retryRounds = 3
    /\ Len(users) >= 2

\* C12: the media download does not retry forever: a run that is in the
\* download step leaves it, for the dispatch or for the job's error handler,
\* even when every fetch fails.
C12_DownloadStops == (pc = "download") ~> (pc # "download")

\* The distinct ids of the User collection.
DistinctIds == {dbUsers[k].userId : k \in 1..Len(dbUsers)}

C14_NoConfigPrimaryOnly ==
    ~adminGramjs =>
        /\ ~useGramjs
        /\ ~lastAttempt.secUsed
        /\ lastAttempt.userId # 0 => (lastAttempt.priCalls = 1 /\ ~lastAttempt.skipped)

C14_Witness ==
    /\ ~adminGramjs
    /\ pc = "reported"
    /\ retryRounds = 3
    /\ \E k \in 1..Len(users) : users[k].username /\ attempts[users[k].userId] = 4
    /\ \E k \in 1..Len(users) : ~users[k].username /\ attempts[users[k].userId] = 1

\* Runs of startForwardingProcess in progress for the operator.
RunsActive ==
    (IF pc \in {"idle", "empty", "reported", "aborted"} THEN 0 ELSE 1) + otherRuns

\* C15: at most one broadcast run is in progress for the operator at any
\* time, whatever /send commands and confirm or cancel callbacks arrive
\* during a run.
C15_SingleRun == RunsActive <= 1

\* C16: the loop sends to one recipient at a time: the sends of a pass
\* never outnumber the loop turns completed, the Bot API send of an attempt
\* is issued only after the attempt's GramJS send has returned a failure,
\* and the first send of an attempt is issued only when the per-send delay
\* since the previous attempt completed has been slept through.
C16_OneSendAtATime ==
    /\ passSends <= i
    /\ (lastAttempt.secUsed /\ lastAttempt.priCalls > 0) => ~lastAttempt.secOk
    /\ lastAttempt.paceOwedAtSend = 0
    /\ pc = "loop" => owed["pacing"] = 0

C16_Witness ==
    /\ pc = "loop"
    /\ i = 2
    /\ passSends = 2
    /\ lastAttempt.secUsed
    /\ lastAttempt.priCalls = 1

\* The latest loop turn fell on a progress boundary: its rounded percentage
\* is a multiple of 5, every recipient is processed, or it was the last turn
\* of the pass.
AtProgressBoundary ==
    \/ progressPercentage(successCount + failureCount, totalUsers) % 5 = 0
    \/ successCount + failureCount = totalUsers
    \/ i >= Len(passUsers)

NextPassSetUp == attemptType = "Retry" /\ (pc = "enter" \/ (pc = "loop" /\ i = 0))

PassUserIds == {passUsers[k].userId : k \in 1..Len(passUsers)}

\* C18: a recipient whose attempt fails with a permanent error is recorded
\* as failed, and a retry round set up after it does not hold that
\* recipient.
C18_PermanentNotRetried ==
    lastAttempt.priError = "forbidden" =>
        /\ ~lastAttempt.success
        /\ (pc \in {"loop", "return"} /\ i > 0) =>
               lastAttempt.userId \in Range(failedUserIds)
        /\ NextPassSetUp => lastAttempt.userId \notin PassUserIds

C20_EmptyListEndsRun ==
    /\ (Len(dbUsers) = 0 /\ pc \notin {"idle", "start"}) => pc \in {"empty", "aborted"}
    /\ Len(dbUsers) = 0 =>
           /\ lastAttempt = NoAttempt
           /\ \A r \in UserIds : attempts[r] = 0
           /\ ~fileBuffer /\ attemptNumber = 0
           /\ retryRounds = 0
           /\ lastEdit = NoEdit /\ report = NoReport
    /\ pc = "empty" => (Len(dbUsers) = 0 /\ userStates = "none")

C20_Witness ==
    /\ pc = "empty"
    /\ messageType = "photo"
    /\ adminGramjs

\* The ids of the snapshot.
SnapshotIds == {users[k].userId : k \in 1..Len(users)}

\* C21: the recipients of a run are the rows read once at its start: the
\* snapshot is what the collection held when it was read and is never read
\* again; whatever is added to or removed from the collection afterwards,
\* only recipients of the snapshot are attempted, every pass is made of the
\* snapshot's rows, in Bot API mode every recipient of the snapshot is
\* attempted until it succeeds or has had its 4 attempts, and the reported
\* total is the size of the snapshot.
C21_SingleSnapshot ==
    /\ [][(pc = "start" /\ pc' = "select_method") => (users' = dbUsers)]_vars
    /\ [][(pc # "start") => (users' = users /\ totalUsers' = totalUsers)]_vars
    /\ [](\A r \in UserIds : attempts[r] > 0 => r \in SnapshotIds)
    /\ [](Range(passUsers) \subseteq Range(users))
    /\ []((pc = "reported" /\ ~useGramjs) =>
            \A r \in SnapshotIds : r \in succeeded \/ attempts[r] = 4)
    /\ [](pc = "reported" => report.totalUsers = Len(users))

C21_Witness ==
    /\ pc = "reported"
    /\ retryRounds >= 1
    /\ Len(users) = 1
    /\ Len(dbUsers) # 1


\* The callers that are inside client.connect() for the operator.
Connecting ==
    {c \in Callers : gAt[c] = "connect"} \cup
    (IF runAt = "reconnect" THEN {"ensureClientConnected"} ELSE {})

\* C22: every GramJS send of the run goes out on a connected client, and at
\* no time are two connects for the operator in progress.
C22_ConnectedSingleConnect ==
    /\ sentOn # "disconnected"
    /\ Cardinality(Connecting) <= 1


\* The run is over: the final report went out, or an error ended it.
RunOver == pc \in {"reported", "aborted"}

\* The operator's state in userStates still has the downloaded buffer.
StateHoldsBuffer == userStates # "none" /\ fileBuffer

\* C23: once the run is over neither the operator's state nor the file
\* cache holds the buffer the run downloaded.
C23_BufferReleased == RunOver => (~StateHoldsBuffer /\ ~fileCache)


\* handleSendCommand created the operator's entry in userStates.
FlowOpens == userStates = "none" /\ userStates' = "awaiting_message"

\* handleCallbackQuery launched startForwardingProcess.
RunStarts == (pc = "idle" /\ pc' = "start") \/ otherRuns' > otherRuns

\* C24: a send flow is opened, and a run is started, only for an operator
\* whose admin access is active at that moment.
C24_OnlyActiveAdmin == [][(FlowOpens \/ RunStarts) => isActive]_vars


\* The recipients with an entry in failedUsers.
HasEntry(r) == \E k \in 1..Len(failedUsers) : failedUsers[k].userId = r

\* The retry rounds a recipient's entry has been through: its triedCount
\* without the initial attempt that created the entry (line 570).
RetriesOf(r) ==
    LET k == CHOOSE k \in 1..Len(failedUsers) : failedUsers[k].userId = r
    IN  failedUsers[k].triedCount - 1

\* The condition of the retry loop is about to be evaluated.
AtRetryHead == pc = "retry_head"

\* C25: between the passes, a recipient has an entry in failedUsers exactly
\* when its initial attempt is over without a success since and fewer than
\* 3 retry rounds have failed for it or the third has just failed; the
\* entry counts one per retry round the recipient failed in; and a retry
\* pass attempts no recipient whose entry has counted 3 rounds.
C25_RetryEntryLifecycle ==
    /\ AtRetryHead =>
            \A r \in SnapshotIds :
                /\ HasEntry(r) => r \notin succeeded
                /\ HasEntry(r) => RetriesOf(r) = retryAttempt - 1
                /\ (r \notin succeeded /\ retryAttempt <= maxRetries) => HasEntry(r)
    /\ \A r \in UserIds : HasEntry(r) => RetriesOf(r) <= maxRetries
    /\ (pc = "loop" /\ attemptType = "Retry") =>
            \A r \in PassUserIds : HasEntry(r) /\ RetriesOf(r) < maxRetries

\* C25 for a run over the Bot API alone.
C25_BotApiOnly == useGramjs \/ C25_RetryEntryLifecycle


\* The last turn of the initial pass is over and sendToUsers has not yet
\* returned into startForwardingProcess.
InitialPassProcessed == pc = "return" /\ attemptType = "Initial"

\* C26: when the last recipient of the initial pass has been processed, the
\* progress edit of that turn has been issued with a processed count equal
\* to the total (100%), before the retry loop or the final report is reached.
C26_FinalSnapshotOfInitialPass ==
    /\ InitialPassProcessed =>
        /\ lastEdit.kind = "progress"
        /\ lastEdit.processed = totalUsers
        /\ lastEdit.pct = 100
    /\ (pc \in {"retry_head", "final", "reported"} /\ retryRounds = 0) => passEdits >= 1

C26_Witness ==
    /\ InitialPassProcessed
    /\ totalUsers = 3
    /\ lastEdit.processed = 3
    /\ failureCount = 2


\* The step is a turn of the loop whose progress edit failed.
LoopEditFails == pc = "loop" /\ lastEdit'.kind = "progress" /\ ~lastEdit'.delivered

\* The step is the head of a retry round whose progress edit failed.
RetryEditFails == pc = "retry_head" /\ lastEdit'.kind = "retry" /\ ~lastEdit'.delivered

\* C27: a turn whose progress edit fails goes on as a turn does: the run
\* stays in the loop or returns from the pass, the counts move by the one
\* send of the turn and by its outcome alone, and the next recipient is the
\* next of the pass; a retry round whose announcement fails starts
\* all the same, with the totals and the users to retry unchanged.
C27_EditFailureHarmless ==
    /\ [][LoopEditFails =>
            /\ pc' = (IF i + batchSize < Len(passUsers) THEN "loop" ELSE "return")
            /\ userStates' = userStates
            /\ successCount' + failureCount' = successCount + failureCount + 1
            /\ (successCount' = successCount + 1) <=> lastAttempt'.success
            /\ i' = i + batchSize
            /\ passUsers' = passUsers]_vars
    /\ [][RetryEditFails =>
            /\ pc' = "enter"
            /\ userStates' = userStates
            /\ totalSuccessCount' = totalSuccessCount
            /\ totalFailureCount' = totalFailureCount
            /\ failedUsers' = failedUsers
            /\ passUsers' = usersToRetry]_vars

C27_Witness ==
    /\ pc = "loop"
    /\ attemptType = "Retry"
    /\ lastEdit.kind = "progress"
    /\ ~lastEdit.delivered
    /\ i = 1
    /\ successCount > totalSuccessCount


\* The step issues a send to a recipient.
SendIssued == attempts' # attempts

\* The step removes the operator's entry from userStates.
StateCleared == userStates # "none" /\ userStates' = "none"

ReportedAndCleared == pc = "reported" /\ report # NoReport /\ userStates = "none"

\* The run has ended with an error and the entry is removed.
AbortedAndCleared == pc = "aborted" /\ userStates = "none"

\* The length of a pass plus its four steps around the loop.
PassSteps == Len(dbUsers) + 4

\* The retry rounds the loop of line 573 can still start.
RoundsLeft == maxRetries - retryRounds

\* An upper bound of the steps the run has left, failed fetches of the
\* download apart: the passes still possible, then the final report.
StepsLeft ==
    CASE pc = "start" -> 4 * PassSteps + 6
      [] pc = "select_method" -> 4 * PassSteps + 5
      [] pc = "download" -> 4 * PassSteps + 4
      [] pc = "initial_progress" -> 4 * PassSteps + 3
      [] pc = "enter" -> RoundsLeft * PassSteps + Len(passUsers) + 5
      [] pc = "loop" -> RoundsLeft * PassSteps + (Len(passUsers) - i) + 4
      [] pc = "return" -> RoundsLeft * PassSteps + 3
      [] pc = "retry_head" -> RoundsLeft * PassSteps + 2
      [] pc = "final" -> 1
      [] OTHER -> 0

\* The fetch of the download failed and is tried again.
FetchFailed == pc = "download" /\ pc' = "download"

\* C29: a run started on a non-empty collection always has a step to take
\* until it has ended, and every step but a failed fetch brings it nearer to
\* its end, so that with its download coming to an end it ends; it ends
\* with the final report issued or with an error, and the step that ends it
\* removes the operator's entry; whenever the entry is absent, /send of the
\* operator opens a new flow.
C29_RunEndsAndStateRemoved ==
    /\ []((pc # "empty" /\ ~RunOver) => ENABLED <<Next>>_vars)
    /\ [][(Next /\ ~FetchFailed) => StepsLeft' < StepsLeft]_vars
    /\ [](StepsLeft >= 0)
    /\ [](pc = "download" => ENABLED DownloadEnds)
    /\ [](pc = "empty" => Len(dbUsers) = 0)
    /\ [](RunOver =>
            \/ ReportedAndCleared
            \/ AbortedAndCleared
            \/ userStates = "awaiting_message")
    /\ [][(~RunOver /\ RunOver') => userStates' = "none"]_vars
    /\ []((RunOver /\ userStates = "none") => ENABLED (handleSendCommand /\ FlowOpens))

C29_Witness ==
    /\ pc = "reported"
    /\ report.totalUsers = 1
    /\ userStates = "awaiting_message"
    /\ otherRuns = 0


\* The longest a session can be in the map after its timestamp: its
\* lifetime and the interval until the next firing of the cleanup.
RemovedBy == SESSION_EXPIRY_MS + CLEANUP_INTERVAL_MS

\* C30: a session is in the map no longer than its 10 minutes and the
\* cleanup interval that follows, and no request finds it later than that.
C30_SessionExpires ==
    /\ otpSession.present => otpSession.age <= RemovedBy
    /\ answeredAge <= RemovedBy


\* The value is what an accepted submission to a session of the type stores.
WellFormedOtp(type, otp) ==
    /\ otp # NoOtp
    /\ Head(otp) # " " /\ otp[Len(otp)] # " "
    /\ type = "code" => (Len(otp) = 5 /\ \A k \in 1..Len(otp) : otp[k] \in Digits)

\* The step changes what a submission writes: the otp, the confirmed flag,
\* or the timestamp (the age falls back to 0) of the session in the map.
SubmissionWritten ==
    /\ otpSession.present /\ otpSession'.present
    /\ \/ otpSession'.otp # otpSession.otp
       \/ otpSession'.confirmed # otpSession.confirmed
       \/ otpSession'.age < otpSession.age

\* The step is a submission answered not-found or bad-request.
SubmissionRejected ==
    /\ postOtpSubmission
    /\ otpAnswer' \in {"bad_request", "not_found"}

\* C31: the status endpoint answers a non-null otp only of a confirmed
\* session; a session is confirmed exactly when it holds a well-formed otp;
\* and the otp, the confirmed flag and the timestamp of a session are
\* written only by a submission that is accepted, never by one answered
\* not-found or bad-request.
C31_OnlyAcceptedSubmissions ==
    /\ [](otpSession.confirmed <=> otpSession.otp # NoOtp)
    /\ [](otpSession.confirmed => WellFormedOtp(otpSession.type, otpSession.otp))
    /\ [][(statusOtp' # statusOtp /\ statusOtp' # NoOtp) =>
            (otpSession.confirmed /\ statusOtp' = otpSession.otp)]_vars
    /\ [][SubmissionWritten => otpAnswer' = "accepted"]_vars
    /\ [][SubmissionRejected => otpSession' = otpSession]_vars

C31_Witness ==
    /\ otpSession.present
    /\ otpSession.type = "code"
    /\ otpSession.confirmed
    /\ otpSession.age > 0
    /\ otpAnswer = "bad_request"
    /\ statusOtp = otpSession.otp


\* An entry for the file id exists and is younger than one hour.
YoungEntry(f) ==
    /\ cacheEntries[f].present
    /\ cacheEntries[f].downloadedAgo < CACHE_EXPIRY_MS

\* The step writes the entry of the file id, other than by the entry's aging.
EntryWritten(f) ==
    \/ cacheEntries'[f].present # cacheEntries[f].present
    \/ cacheEntries'[f].downloadedAgo < cacheEntries[f].downloadedAgo

\* C32: a call of downloadFileFromTelegram answers from the cache, without
\* starting a fetch, exactly when an entry for the file id exists and is
\* younger than one hour, and starts a fetch otherwise; an entry is created
\* or replaced only by a fetch of that file id that succeeded, which leaves
\* a new entry, and a fetch that failed leaves every entry as it was.
C32_CacheHitIffYoungEntry ==
    /\ [][\A f \in FileIds : downloadCall(f) =>
            /\ (lastDownload'.answer = "cached" /\ f \notin fetching') <=> YoungEntry(f)
            /\ (lastDownload'.answer = "fetching" /\ f \in fetching') <=> ~YoungEntry(f)
            /\ cacheEntries' = cacheEntries]_vars
    /\ [][\A f \in FileIds : EntryWritten(f) =>
            /\ f \in fetching
            /\ lastDownload' = [fileId |-> f, answer |-> "buffer"]
            /\ cacheEntries'[f] = [present |-> TRUE, downloadedAgo |-> 0]]_vars
    /\ [][(downloadFileFromTelegram /\ lastDownload'.answer = "null") =>
            cacheEntries' = cacheEntries]_vars

C32_Witness ==
    \E f \in FileIds :
        /\ cacheEntries[f].present
        /\ cacheEntries[f].downloadedAgo = CACHE_EXPIRY_MS
        /\ f \in fetching
        /\ lastDownload = [fileId |-> f, answer |-> "fetching"]


\* The text is what the step asks for: an API id is digits only and
\* positive, an API hash has ten characters or more, a phone number is in
\* international format.
ValidInput(step, text) ==
    CASE step = "awaiting_api_id" ->
            /\ text # NoText
            /\ \A k \in 1..Len(text) : text[k] \in Digits
            /\ toNumber(text) > 0
      [] step = "awaiting_api_hash" -> Len(text) >= 10
      [] step = "awaiting_phone" -> phoneAccepted(text)
      [] OTHER -> FALSE

\* The step of the setup flow moves on to the step that follows it.
SetupAdvances ==
    \/ setupStates.step = "awaiting_api_id" /\ setupStates'.step = "awaiting_api_hash"
    \/ setupStates.step = "awaiting_api_hash" /\ setupStates'.step = "awaiting_phone"

\* The stored credentials change to values that are set.
CredentialsWritten ==
    /\ <<adminRow'.gramjsApiId, adminRow'.gramjsApiHash, adminRow'.gramjsPhoneNumber>>
        # <<adminRow.gramjsApiId, adminRow.gramjsApiHash, adminRow.gramjsPhoneNumber>>
    /\ adminRow'.gramjsPhoneNumber # NoText

\* C33: the setup flow advances only on a valid input for its step; an
\* invalid input other than /cancel, answered without an error, leaves the
\* setup state as it was; and credentials are written only by a valid phone
\* number in the third step, as the values collected, with gramjsActive
\* false, the setup state being removed.
C33_SetupAdvancesOnValidInput ==
    /\ [][SetupAdvances => ValidInput(setupStates.step, setupInput')]_vars
    /\ [][(handleSetupFlow /\ setupStates'.step = setupStates.step
            /\ ~ValidInput(setupStates.step, setupInput'))
            => setupStates' = setupStates]_vars
    /\ [][CredentialsWritten =>
            /\ setupStates.step = "awaiting_phone"
            /\ ValidInput("awaiting_phone", setupInput')
            /\ adminRow'.gramjsApiId = setupStates.apiId
            /\ adminRow'.gramjsApiHash = setupStates.apiHash
            /\ adminRow'.gramjsPhoneNumber = setupInput'
            /\ ~adminRow'.gramjsActive
            /\ setupStates' = NoSetup]_vars

\* The same with the API id read as parseInt reads it.
C33_AdvancesOnAcceptedInput ==
    /\ [][SetupAdvances =>
            IF setupStates.step = "awaiting_api_id"
                THEN apiIdAccepted(setupInput')
                ELSE ValidInput(setupStates.step, setupInput')]_vars
    /\ [][CredentialsWritten =>
            /\ setupStates.step = "awaiting_phone"
            /\ ValidInput("awaiting_phone", setupInput')
            /\ ~adminRow'.gramjsActive
            /\ setupStates' = NoSetup]_vars

\* C38: in the stored row gramjsActive is true only if a session string,
\* an API id and an API hash are all present.
C38_ActiveImpliesCredentials ==
    adminRow.gramjsActive =>
        /\ adminRow.gramjsSession
        /\ adminRow.gramjsApiId # 0
        /\ adminRow.gramjsApiHash # NoText


\* A progress snapshot of a pass, delivered or not.
SnapshotEmitted == lastEdit.kind = "progress"

\* C34: in every progress snapshot of a run, the retry rounds included, the
\* processed count does not exceed the total recipient count and the
\* percentage displayed does not exceed 100.
C34_SnapshotWithinTotal ==
    SnapshotEmitted =>
        /\ lastEdit.processed <= totalUsers
        /\ lastEdit.pct <= 100

\* The same for the snapshots of the initial pass alone.
C34_InitialPassWithinTotal ==
    (SnapshotEmitted /\ attemptType = "Initial") =>
        /\ lastEdit.processed <= totalUsers
        /\ lastEdit.pct <= 100


\* The step is the end of a run: the final cleanup of the run followed, or
\* of a run counted in otherRuns.
RunEnds ==
    \/ pc \notin {"idle", "reported", "aborted"} /\ pc' \in {"reported", "aborted"}
    \/ otherRuns' < otherRuns

\* The operator's entry is that of a flow opened after every run in
\* progress was confirmed: the state of a run is in awaiting_confirmation.
NewFlowOpened == userStates = "awaiting_message"

\* C35: the final cleanup of a run leaves in place the state of a send
\* flow that was opened with /send while the run was in progress.
C35_CleanupKeepsNewFlow ==
    [][(RunEnds /\ NewFlowOpened) => userStates' = userStates]_vars


\* The succeeded count of the run at this point: the counter of the pass
\* in progress, the running total between two passes.
SucceededCount ==
    IF pc \in {"loop", "return"} THEN successCount ELSE totalSuccessCount

\* C36: at every point of a run the succeeded count is the number of
\* distinct recipients a send has succeeded for so far, and it does not
\* exceed the total recipient count.  A run left by an exception has no
\* counters any more.
C36_SucceededCountsRecipients ==
    pc # "aborted" =>
        /\ SucceededCount = Cardinality(succeeded)
        /\ SucceededCount <= totalUsers

C36_Witness ==
    /\ pc = "loop"
    /\ attemptType = "Retry"
    /\ successCount = 2
    /\ \E r \in succeeded : attempts[r] = 2
    /\ \E r \in UserIds : r \notin succeeded /\ attempts[r] = 2


\* The run uses the primary channel only and has recipients to send to.
PrimaryOnlyRun == pc = "download" /\ ~useGramjs /\ totalUsers > 0

\* A send to a recipient has been issued.
FirstSendIssued == \E r \in UserIds : attempts[r] > 0

\* C37: a run that uses the primary channel only issues its first send
\* whatever the downloads of the media answer (or is left by an exception).
C37_PrimaryDispatchWithoutDownload ==
    PrimaryOnlyRun ~> (FirstSendIssued \/ pc = "aborted")


\* C39: through /removeadmin commands alone the set of active admins never
\* becomes empty.
C39_ActiveAdminRemains == activeAdmins # {}

====
